---- MODULE Spec2Model ----
(***************************************************************************)
(* Root-finding engine of ZOF_Model-Project: the six iterative methods of  *)
(* src/ZOF_CLI.py (printing variants) and src/app.py (list-collecting      *)
(* variants), run on exact rational arithmetic extended with NaN and with  *)
(* an evaluator that may raise.                                            *)
(***************************************************************************)
EXTENDS Integers, Sequences, FiniteSets, TLC

(* ------------------------------ bounds --------------------------------- *)
MaxIt == 3
MaxSeed == 2

(* ----------------- floats: exact rationals <<n, d>>, d > 0 ------------- *)
NaN == <<0, 0>>
Raised == <<1, 0>>
Zero == <<0, 1>>
One == <<1, 1>>
Two == <<2, 1>>

IsNaN(x) == x[2] = 0

AbsInt(n) == IF n < 0 THEN -n ELSE n

RECURSIVE GCD(_, _)
GCD(m, n) == IF n = 0 THEN m ELSE GCD(n, m % n)

Norm(n, d) ==
    LET s == IF d < 0 THEN -1 ELSE 1
        g == GCD(AbsInt(n), AbsInt(d))
    IN  <<(s * n) \div g, (s * d) \div g>>

Neg(x) == IF IsNaN(x) THEN NaN ELSE <<-x[1], x[2]>>

Abs(x) == IF IsNaN(x) THEN NaN ELSE <<AbsInt(x[1]), x[2]>>

Add(x, y) ==
    IF IsNaN(x) \/ IsNaN(y) THEN NaN
    ELSE LET g == GCD(x[2], y[2])
         IN  Norm(x[1] * (y[2] \div g) + y[1] * (x[2] \div g), (x[2] \div g) * y[2])

Sub(x, y) == Add(x, Neg(y))

Mul(x, y) ==
    IF IsNaN(x) \/ IsNaN(y) THEN NaN
    ELSE LET g1 == GCD(AbsInt(x[1]), y[2])
             g2 == GCD(AbsInt(y[1]), x[2])
         IN  <<(x[1] \div g1) * (y[1] \div g2), (x[2] \div g2) * (y[2] \div g1)>>

\* a zero divisor is handled by the callers (guards or ZeroDivisionError)
Div(x, y) ==
    IF IsNaN(x) \/ IsNaN(y) \/ y[1] = 0 THEN NaN
    ELSE Mul(x, IF y[1] < 0 THEN <<-y[2], -y[1]>> ELSE <<y[2], y[1]>>)

\* comparisons with NaN are False
Lt(x, y) ==
    /\ ~IsNaN(x)
    /\ ~IsNaN(y)
    /\ LET g == GCD(x[2], y[2]) IN x[1] * (y[2] \div g) < y[1] * (x[2] \div g)

Gt(x, y) == Lt(y, x)

Eq(x, y) == ~IsNaN(x) /\ ~IsNaN(y) /\ x = y

Le(x, y) == Lt(x, y) \/ Eq(x, y)

RECURSIVE Pow2(_)
Pow2(n) == IF n = 0 THEN 1 ELSE 2 * Pow2(n - 1)

(* ------------------------- evaluators f, df, g ------------------------- *)
\* The callables built by parse_function: opaque to the methods.  Each id is
\* one expression; "dom" is defined only for x >= 0 (NaN below), "1/x-1"
\* raises at x = 0.
Evaluators == {"x-1", "x", "x^2-2", "x^2", "max(x,0)+1", "1", "dom", "1/x-1", "-x", "x/2+1"}

Eval(e, x) ==
    IF IsNaN(x) THEN NaN
    ELSE CASE e = "x-1"   -> Sub(x, One)
           [] e = "x"     -> x
           [] e = "x^2-2" -> Sub(Mul(x, x), Two)
           [] e = "x^2"   -> Mul(x, x)
           [] e = "max(x,0)+1" -> IF Lt(x, Zero) THEN One ELSE Add(x, One)
           [] e = "1"     -> One
           [] e = "dom"   -> IF Lt(x, Zero) THEN NaN ELSE Sub(x, One)
           [] e = "1/x-1" -> IF x[1] = 0 THEN Raised ELSE Sub(Div(One, x), One)
           [] e = "-x"    -> Neg(x)
           [] e = "x/2+1" -> Add(Div(x, Two), One)

\* df = lambdify(x, diff(expr, x))
DEval(e, x) ==
    IF IsNaN(x) THEN NaN
    ELSE CASE e = "x-1"   -> One
           [] e = "x"     -> One
           [] e = "x^2-2" -> Mul(Two, x)
           [] e = "x^2"   -> Mul(Two, x)
           [] e = "max(x,0)+1" -> IF Gt(x, Zero) THEN One ELSE Zero
           [] e = "1"     -> Zero
           [] e = "dom"   -> IF Lt(x, Zero) THEN NaN ELSE One
           [] e = "1/x-1" -> IF x[1] = 0 THEN Raised ELSE Neg(Div(One, Mul(x, x)))
           [] e = "-x"    -> Neg(One)
           [] e = "x/2+1" -> Div(One, Two)

(* ------------------------------- state --------------------------------- *)
VARIABLES method, variant, fid, tol, maxit, delta, a0, b0,
          a, b, fa, fb, c, fc, x0, x1, f0, f1, x2, fx2, xi,
          k, iters, status, error, errsite, result, evals

inputs == <<method, variant, fid, tol, maxit, delta, a0, b0>>
brk == <<a, b, fa, fb, c, fc>>
sec == <<x0, x1, f0, f1, x2, fx2>>
locals == <<a, b, fa, fb, c, fc, x0, x1, f0, f1, x2, fx2, xi>>
vars == <<method, variant, fid, tol, maxit, delta, a0, b0,
          a, b, fa, fb, c, fc, x0, x1, f0, f1, x2, fx2, xi,
          k, iters, status, error, errsite, result, evals>>

\* The evaluators each method is run on: those whose iterates stay exact in
\* the integer range for MaxIt + 1 steps (squaring maps are left out of the
\* methods that iterate them without converging).
EvaluatorsOf(m) ==
    CASE m = "newton_raphson"  -> Evaluators \ {"x^2-2"}
      [] m = "fixed_point"     -> Evaluators \ {"x^2-2", "x^2"}
      [] m = "modified_secant" -> Evaluators \ {"x^2-2", "x^2", "1/x-1"}
      [] OTHER                 -> Evaluators

Methods == {"bisection", "regula_falsi", "secant", "newton_raphson",
            "fixed_point", "modified_secant"}
BracketMethods == {"bisection", "regula_falsi"}
Variants == {"cli", "list"}
Seeds == {<<n, 1>> : n \in -1..MaxSeed}
Tols == {<<1, 100>>, One}
Deltas == {<<1, 2>>, One}
NoResult == [root |-> NaN, froot |-> NaN, its |-> 0]

\* mutant: 0-based record index
Record_mut(i, x, fx, e, ctx) ==
    [index |-> i - 1, estimate |-> x, function_value |-> fx, error_metric |-> e,
     context |-> ctx]

Record(i, x, fx, e, ctx) ==
    [index |-> i, estimate |-> x, function_value |-> fx, error_metric |-> e,
     context |-> ctx]

Site(v, cli, app) == IF v = "cli" THEN cli ELSE app

\* a call about to be made: the arguments of one of the twelve functions
Init ==
    /\ method \in Methods
    /\ variant \in Variants
    /\ fid \in EvaluatorsOf(method)
    /\ tol \in Tols
    /\ maxit \in 1..MaxIt
    /\ delta \in IF method = "modified_secant" THEN Deltas ELSE {NaN}
    /\ a \in IF method \in BracketMethods THEN Seeds ELSE {NaN}
    /\ b \in IF method \in BracketMethods THEN Seeds ELSE {NaN}
    /\ a0 = a
    /\ b0 = b
    /\ x0 \in IF method \in BracketMethods THEN {NaN} ELSE Seeds
    /\ x1 \in IF method = "secant" THEN Seeds ELSE {NaN}
    /\ fa = NaN /\ fb = NaN /\ c = NaN /\ fc = NaN
    /\ f0 = NaN /\ f1 = NaN /\ x2 = NaN /\ fx2 = NaN /\ xi = NaN
    /\ k = 0
    /\ iters = <<>>
    /\ status = "init"
    /\ error = "none"
    /\ errsite = "none"
    /\ result = NoResult
    /\ evals = <<>>

\* raise: the exception leaves the function; nothing is returned
Fail(kk, e, site, ev, its) ==
    /\ k' = kk
    /\ status' = "failed"
    /\ error' = e
    /\ errsite' = site
    /\ evals' = evals \o ev
    /\ iters' = its
    /\ UNCHANGED <<result, locals, inputs>>

\* return root, froot, iterations
Return(kk, root, froot, n, ev, its) ==
    /\ k' = kk
    /\ status' = "returned"
    /\ result' = [root |-> root, froot |-> froot, its |-> n]
    /\ evals' = evals \o ev
    /\ iters' = its
    /\ UNCHANGED <<error, errsite, locals, inputs>>

(* ------------------------ Bisection / Regula Falsi --------------------- *)
NanEndpoints(va, vb) == IsNaN(va) \/ IsNaN(vb)

\* mutant: fa*fb >= 0 rejected
BracketInvalid_mut(va, vb) == ~Lt(Mul(va, vb), Zero)

BracketInvalid(va, vb) == Gt(Mul(va, vb), Zero)

\* mutant: a + b/2.0
Midpoint_mut(l, r) == Add(l, Div(r, Two))

Midpoint(l, r) == Div(Add(l, r), Two)

HalfWidth(l, r) == Div(Abs(Sub(r, l)), Two)

\* mutant: the exact-zero test is dropped
BisectionConverged_mutZero(v, e) == Lt(e, tol)

\* mutant: the tolerance test is dropped
BisectionConverged_mutErr(v, e) == Eq(Abs(v), Zero)

BisectionConverged(v, e) == Eq(Abs(v), Zero) \/ Lt(e, tol)

ReplaceB(va, vc) == Lt(Mul(va, vc), Zero)

\* fa, fb = f(a), f(b) and the checks before the loop
BracketStart(v, nanCheck, siteEval, siteBracket) ==
    LET va == Eval(fid, a)
        vb == Eval(fid, b)
    IN  /\ status = "init"
        /\ IF va = Raised THEN Fail(0, "EvaluatorError", siteEval, <<a>>, iters)
           ELSE IF vb = Raised THEN Fail(0, "EvaluatorError", siteEval, <<a, b>>, iters)
           ELSE IF nanCheck /\ NanEndpoints(va, vb)
                THEN Fail(0, "ValueError: NaN on interval endpoints",
                          "ZOF_CLI.py:32", <<a, b>>, iters)
           ELSE IF BracketInvalid(va, vb)
                THEN Fail(0, "ValueError: opposite signs", siteBracket, <<a, b>>, iters)
           ELSE /\ status' = "iterating"
                /\ fa' = va
                /\ fb' = vb
                /\ c' = IF v = "cli" THEN a ELSE c
                /\ evals' = evals \o <<a, b>>
                /\ UNCHANGED <<a, b, fc, sec, xi, k, iters, error, errsite, result, inputs>>

\* the bracket update shared by both methods
BracketUpdate(cc, vc) ==
    IF ReplaceB(fa, vc)
    THEN b' = cc /\ fb' = vc /\ UNCHANGED <<a, fa>>
    ELSE a' = cc /\ fa' = vc /\ UNCHANGED <<b, fb>>

BisectionStep(v) ==
    LET kk == k + 1
        cc == Midpoint(a, b)
        vc == Eval(fid, cc)
        e == HalfWidth(a, b)
        its == Append(iters, Record(kk, cc, vc, e, <<a, b>>))
    IN  /\ status = "iterating"
        /\ k < maxit
        /\ IF vc = Raised
           THEN Fail(kk, "EvaluatorError", Site(v, "ZOF_CLI.py:39", "app.py:21"), <<cc>>, iters)
           ELSE IF BisectionConverged(vc, e)
           THEN Return(kk, cc, vc, kk, <<cc>>, its)
           ELSE /\ BracketUpdate(cc, vc)
                /\ c' = cc
                /\ fc' = vc
                /\ k' = kk
                /\ iters' = its
                /\ evals' = Append(evals, cc)
                /\ UNCHANGED <<sec, xi, status, error, errsite, result, inputs>>

\* return c, fc, maxit after the loop
BracketExhaust ==
    /\ status = "iterating"
    /\ k = maxit
    /\ Return(k, c, fc, maxit, <<>>, iters)

bisection ==
    /\ method = "bisection"
    /\ variant = "cli"
    /\ \/ BracketStart("cli", TRUE, "ZOF_CLI.py:30", "ZOF_CLI.py:34")
       \/ BisectionStep("cli")
       \/ BracketExhaust

bisection_list ==
    /\ method = "bisection"
    /\ variant = "list"
    /\ \/ BracketStart("list", FALSE, "app.py:15", "app.py:17")
       \/ BisectionStep("list")
       \/ BracketExhaust

\* c = (a*fb - b*fa) / (fb - fa): the division is unguarded.  A zero divisor
\* raises ZeroDivisionError on Python floats and yields NaN (0/0) on
\* numpy.float64 values, whichever type the evaluator returns.
Interpolate(l, r, vl, vr, np) ==
    LET num == Sub(Mul(l, vr), Mul(r, vl))
        den == Sub(vr, vl)
    IN  IF Eq(den, Zero)
        THEN (IF np /\ Eq(num, Zero) THEN NaN ELSE Raised)
        ELSE Div(num, den)

RegulaFalsiConverged(v) == Lt(Abs(v), tol)

RegulaFalsiStep(v) ==
    \E np \in BOOLEAN :
        LET kk == k + 1
            cc == Interpolate(a, b, fa, fb, np)
            vc == Eval(fid, cc)
            e == Abs(vc)
            its == Append(iters, Record(kk, cc, vc, e, <<a, b>>))
        IN  /\ status = "iterating"
            /\ k < maxit
            /\ IF cc = Raised
               THEN Fail(kk, "ZeroDivisionError", Site(v, "ZOF_CLI.py:59", "app.py:40"),
                         <<>>, iters)
               ELSE IF vc = Raised
               THEN Fail(kk, "EvaluatorError", Site(v, "ZOF_CLI.py:60", "app.py:41"),
                         <<cc>>, iters)
               ELSE IF RegulaFalsiConverged(vc)
               THEN Return(kk, cc, vc, kk, <<cc>>, its)
               ELSE /\ BracketUpdate(cc, vc)
                    /\ c' = cc
                    /\ fc' = vc
                    /\ k' = kk
                    /\ iters' = its
                    /\ evals' = Append(evals, cc)
                    /\ UNCHANGED <<sec, xi, status, error, errsite, result, inputs>>

regula_falsi ==
    /\ method = "regula_falsi"
    /\ variant = "cli"
    /\ \/ BracketStart("cli", FALSE, "ZOF_CLI.py:53", "ZOF_CLI.py:55")
       \/ RegulaFalsiStep("cli")
       \/ BracketExhaust

regula_falsi_list ==
    /\ method = "regula_falsi"
    /\ variant = "list"
    /\ \/ BracketStart("list", FALSE, "app.py:35", "app.py:37")
       \/ RegulaFalsiStep("list")
       \/ BracketExhaust

(* ------------------------------- Secant -------------------------------- *)
\* err < tol or abs(f(x)) < tol
OpenConverged(e, v) == Lt(e, tol) \/ Lt(Abs(v), tol)

\* mutant: the zero-denominator guard is dropped
SecantDenomZero_mut(v0, v1) == FALSE

SecantDenomZero(v0, v1) == Eq(Sub(v1, v0), Zero)

SecantStart(v) ==
    LET v0 == Eval(fid, x0)
        v1 == Eval(fid, x1)
        site == Site(v, "ZOF_CLI.py:75", "app.py:56")
    IN  /\ status = "init"
        /\ IF v0 = Raised THEN Fail(0, "EvaluatorError", site, <<x0>>, iters)
           ELSE IF v1 = Raised THEN Fail(0, "EvaluatorError", site, <<x0, x1>>, iters)
           ELSE /\ status' = "iterating"
                /\ f0' = v0
                /\ f1' = v1
                /\ evals' = evals \o <<x0, x1>>
                /\ UNCHANGED <<brk, x0, x1, x2, fx2, xi, k, iters, error, errsite,
                               result, inputs>>

SecantStep(v) ==
    LET kk == k + 1
        xn == Sub(x1, Div(Mul(f1, Sub(x1, x0)), Sub(f1, f0)))
        e == Abs(Sub(xn, x1))
        vn == Eval(fid, xn)
        its == Append(iters, Record(kk, xn, vn, e, <<x0, x1>>))
    IN  /\ status = "iterating"
        /\ k < maxit
        /\ IF SecantDenomZero(f0, f1)
           THEN Fail(kk, "ZeroDivisionError", Site(v, "ZOF_CLI.py:78", "app.py:59"),
                     <<>>, iters)
           ELSE IF vn = Raised
           THEN Fail(kk, "EvaluatorError", Site(v, "ZOF_CLI.py:81", "app.py:62"),
                     <<xn>>, iters)
           ELSE IF OpenConverged(e, vn)
           THEN Return(kk, xn, vn, kk, <<xn>>, its)
           ELSE /\ x0' = x1
                /\ f0' = f1
                /\ x1' = xn
                /\ f1' = vn
                /\ x2' = xn
                /\ fx2' = vn
                /\ k' = kk
                /\ iters' = its
                /\ evals' = Append(evals, xn)
                /\ UNCHANGED <<brk, xi, status, error, errsite, result, inputs>>

SecantExhaust ==
    /\ status = "iterating"
    /\ k = maxit
    /\ Return(k, x2, fx2, maxit, <<>>, iters)

secant ==
    /\ method = "secant"
    /\ variant = "cli"
    /\ (SecantStart("cli") \/ SecantStep("cli") \/ SecantExhaust)

secant_list ==
    /\ method = "secant"
    /\ variant = "list"
    /\ (SecantStart("list") \/ SecantStep("list") \/ SecantExhaust)

(* --------------- Newton-Raphson, Fixed Point, Modified Secant ---------- *)
\* xi = x0
OpenStart ==
    /\ status = "init"
    /\ status' = "iterating"
    /\ xi' = x0
    /\ UNCHANGED <<brk, sec, k, iters, error, errsite, result, evals, inputs>>

\* mutant: xi is not advanced
OpenContinue_mut(kk, xn, ev, its) ==
    /\ xi' = xi
    /\ k' = kk
    /\ iters' = its
    /\ evals' = evals \o ev
    /\ UNCHANGED <<brk, sec, status, error, errsite, result, inputs>>

\* xi = x_next at the end of the loop body
OpenContinue(kk, xn, ev, its) ==
    /\ xi' = xn
    /\ k' = kk
    /\ iters' = its
    /\ evals' = evals \o ev
    /\ UNCHANGED <<brk, sec, status, error, errsite, result, inputs>>

\* return xi, f(xi), maxit after the loop
OpenExhaust(site) ==
    LET vr == Eval(fid, xi)
    IN  /\ status = "iterating"
        /\ k = maxit
        /\ IF vr = Raised
           THEN Fail(k, "EvaluatorError", site, <<xi>>, iters)
           ELSE Return(k, xi, vr, maxit, <<xi>>, iters)

ZeroDerivative(d) == Eq(d, Zero)

NewtonStep(v) ==
    LET kk == k + 1
        fxi == Eval(fid, xi)
        dfxi == DEval(fid, xi)
        xn == Sub(xi, Div(fxi, dfxi))
        e == Abs(Sub(xn, xi))
        vn == Eval(fid, xn)
        its == Append(iters, Record(kk, xn, vn, e, <<dfxi>>))
    IN  /\ status = "iterating"
        /\ k < maxit
        /\ IF fxi = Raised
           THEN Fail(kk, "EvaluatorError", Site(v, "ZOF_CLI.py:93", "app.py:74"),
                     <<xi>>, iters)
           ELSE IF dfxi = Raised
           THEN Fail(kk, "EvaluatorError", Site(v, "ZOF_CLI.py:94", "app.py:75"),
                     <<xi>>, iters)
           ELSE IF ZeroDerivative(dfxi)
           THEN Fail(kk, "ZeroDivisionError", Site(v, "ZOF_CLI.py:96", "app.py:77"),
                     <<xi>>, iters)
           ELSE IF vn = Raised
           THEN Fail(kk, "EvaluatorError", Site(v, "ZOF_CLI.py:99", "app.py:80"),
                     <<xi, xn>>, iters)
           ELSE IF OpenConverged(e, vn)
           THEN Return(kk, xn, vn, kk,
                       IF Lt(e, tol) THEN <<xi, xn, xn>> ELSE <<xi, xn, xn, xn>>, its)
           ELSE OpenContinue(kk, xn, <<xi, xn, xn>>, its)

newton_raphson ==
    /\ method = "newton_raphson"
    /\ variant = "cli"
    /\ (OpenStart \/ NewtonStep("cli") \/ OpenExhaust("ZOF_CLI.py:103"))

newton_list ==
    /\ method = "newton_raphson"
    /\ variant = "list"
    /\ (OpenStart \/ NewtonStep("list") \/ OpenExhaust("app.py:84"))

\* try: gx = g(x_next)  except Exception: gx = float('nan')
Diagnostic(xn) == IF Eval(fid, xn) = Raised THEN NaN ELSE Eval(fid, xn)

FixedPointStep ==
    LET kk == k + 1
        xn == Eval(fid, xi)
        e == Abs(Sub(xn, xi))
        gx == Diagnostic(xn)
        its == Append(iters, Record(kk, xn, gx, e, <<>>))
    IN  /\ status = "iterating"
        /\ k < maxit
        /\ IF xn = Raised
           THEN Fail(kk, "EvaluatorError", "ZOF_CLI.py:109", <<xi>>, iters)
           ELSE IF Lt(e, tol)
           THEN Return(kk, xn, gx, kk, <<xi, xn>>, its)
           ELSE OpenContinue(kk, xn, <<xi, xn>>, its)

\* iters.append((k, x_next, g(x_next) ..., err, "g(x)")): no try around g(x_next)
FixedPointListStep ==
    LET kk == k + 1
        xn == Eval(fid, xi)
        e == Abs(Sub(xn, xi))
        gx == Eval(fid, xn)
        its == Append(iters, Record(kk, xn, gx, e, <<>>))
    IN  /\ status = "iterating"
        /\ k < maxit
        /\ IF xn = Raised
           THEN Fail(kk, "EvaluatorError", "app.py:90", <<xi>>, iters)
           ELSE IF gx = Raised
           THEN Fail(kk, "EvaluatorError", "app.py:92", <<xi, xn>>, iters)
           ELSE IF Lt(e, tol)
           THEN Return(kk, xn, gx, kk, <<xi, xn, xn>>, its)
           ELSE OpenContinue(kk, xn, <<xi, xn>>, its)

fixed_point ==
    /\ method = "fixed_point"
    /\ variant = "cli"
    /\ (OpenStart \/ FixedPointStep \/ OpenExhaust("ZOF_CLI.py:119"))

fixed_point_list ==
    /\ method = "fixed_point"
    /\ variant = "list"
    /\ (OpenStart \/ FixedPointListStep \/ OpenExhaust("app.py:96"))

\* perturb = x0 * delta if x0 != 0 else delta
Perturb == IF ~Eq(x0, Zero) THEN Mul(x0, delta) ELSE delta

ModifiedSecantDenomZero(d) == Eq(d, Zero)

ModifiedSecantStep(v) ==
    LET kk == k + 1
        xp == Add(xi, Perturb)
        vp == Eval(fid, xp)
        vi == Eval(fid, xi)
        denom == Sub(vp, vi)
        xn == Sub(xi, Div(Mul(vi, Perturb), denom))
        e == Abs(Sub(xn, xi))
        vn == Eval(fid, xn)
        its == Append(iters, Record(kk, xn, vn, e, <<delta>>))
    IN  /\ status = "iterating"
        /\ k < maxit
        /\ IF vp = Raised
           THEN Fail(kk, "EvaluatorError", Site(v, "ZOF_CLI.py:126", "app.py:103"),
                     <<xp>>, iters)
           ELSE IF vi = Raised
           THEN Fail(kk, "EvaluatorError", Site(v, "ZOF_CLI.py:126", "app.py:103"),
                     <<xp, xi>>, iters)
           ELSE IF ModifiedSecantDenomZero(denom)
           THEN Fail(kk, "ZeroDivisionError", Site(v, "ZOF_CLI.py:128", "app.py:105"),
                     <<xp, xi>>, iters)
           ELSE IF vn = Raised
           THEN Fail(kk, "EvaluatorError", Site(v, "ZOF_CLI.py:131", "app.py:108"),
                     <<xp, xi, xi, xn>>, iters)
           ELSE IF OpenConverged(e, vn)
           THEN Return(kk, xn, vn, kk,
                       IF Lt(e, tol) THEN <<xp, xi, xi, xn, xn>>
                                     ELSE <<xp, xi, xi, xn, xn, xn>>, its)
           ELSE OpenContinue(kk, xn, <<xp, xi, xi, xn, xn>>, its)

modified_secant ==
    /\ method = "modified_secant"
    /\ variant = "cli"
    /\ (OpenStart \/ ModifiedSecantStep("cli") \/ OpenExhaust("ZOF_CLI.py:135"))

modified_secant_list ==
    /\ method = "modified_secant"
    /\ variant = "list"
    /\ (OpenStart \/ ModifiedSecantStep("list") \/ OpenExhaust("app.py:112"))

Next ==
    \/ bisection
    \/ regula_falsi
    \/ secant
    \/ newton_raphson
    \/ fixed_point
    \/ modified_secant
    \/ bisection_list
    \/ regula_falsi_list
    \/ secant_list
    \/ newton_list
    \/ fixed_point_list
    \/ modified_secant_list

Spec == Init /\ [][Next]_vars

(* ------------------------------ properties ----------------------------- *)
\* the convergence predicate of the method, read off a produced record
ConvMet(r) ==
    CASE method = "bisection" ->
            Eq(Abs(r.function_value), Zero) \/ Lt(r.error_metric, tol)
      [] method = "regula_falsi" -> Lt(Abs(r.function_value), tol)
      [] method = "fixed_point" -> Lt(r.error_metric, tol)
      [] OTHER -> Lt(r.error_metric, tol) \/ Lt(Abs(r.function_value), tol)

NoConvergence == \A i \in 1..Len(iters) : ~ConvMet(iters[i])

fA0 == Eval(fid, a0)
fB0 == Eval(fid, b0)
Width0 == Abs(Sub(b0, a0))

\* C1: in Bisection and RegulaFalsi started on a bracket with f(a)*f(b) <= 0,
\* the current bracket satisfies f(a)*f(b) <= 0 before the first iteration and
\* after every bracket update.
C1_BracketInvariant ==
    (/\ method \in BracketMethods
     /\ status \in {"iterating", "returned"}
     /\ fA0 # Raised
     /\ fB0 # Raised
     /\ Le(Mul(fA0, fB0), Zero))
    => Le(Mul(Eval(fid, a), Eval(fid, b)), Zero)

\* C2: a returned run has 1 <= iterations_used <= max_iterations, and when no
\* convergence predicate was met at any step it returns max_iterations and the
\* estimate computed at step max_iterations.
C2_ExhaustionCap ==
    status = "returned" =>
        /\ 1 <= result.its
        /\ result.its <= maxit
        /\ NoConvergence =>
              /\ result.its = maxit
              /\ Len(iters) = maxit
              /\ result.root = iters[maxit].estimate

C2_Witness ==
    /\ status = "returned"
    /\ NoConvergence
    /\ maxit >= 2
    /\ result.its = maxit

\* C3 as stated: a returned run has iterations_used = max_iterations if and
\* only if no convergence predicate was met during the run.
C3_Distinguishable ==
    status = "returned" => (result.its = maxit <=> NoConvergence)

\* C3 amended: a returned run with no convergence predicate met has
\* iterations_used = max_iterations, and a returned run with iterations_used <
\* max_iterations met its predicate first at step iterations_used; a run that
\* converges at step max_iterations also returns max_iterations.
C3_Amended ==
    status = "returned" =>
        /\ NoConvergence => result.its = maxit
        /\ result.its < maxit =>
              /\ Len(iters) = result.its
              /\ ConvMet(iters[result.its])
              /\ \A j \in 1..(result.its - 1) : ~ConvMet(iters[j])
        /\ (Len(iters) = maxit /\ ConvMet(iters[maxit])) => result.its = maxit

C3_Witness ==
    /\ status = "returned"
    /\ maxit >= 2
    /\ result.its = maxit
    /\ ConvMet(iters[maxit])

\* C4: in FixedPoint no failure of the evaluation of g at the newly computed
\* point (the function-value field of the record and of the result) aborts
\* the run, in the CLI variant and in the list-collecting variant.
C4_DiagnosticNonFatal ==
    method = "fixed_point" =>
        errsite \notin {"ZOF_CLI.py:112", "ZOF_CLI.py:119",
                        "app.py:92", "app.py:94", "app.py:96"}

\* C5: Bisection with f(a) or f(b) NaN fails with the domain error before any
\* iteration and before any record, in both variants.
C5_NaNDomainError ==
    (/\ method = "bisection"
     /\ status # "init"
     /\ fA0 # Raised
     /\ fB0 # Raised
     /\ (fA0 = NaN \/ fB0 = NaN))
    => /\ status = "failed"
       /\ error = "ValueError: NaN on interval endpoints"
       /\ k = 0
       /\ iters = <<>>

\* the denominator of the step about to run is zero
DenominatorZero ==
    /\ status = "iterating"
    /\ k < maxit
    /\ CASE method = "secant" -> Eq(Eval(fid, x1), Eval(fid, x0))
         [] method = "newton_raphson" ->
               /\ Eval(fid, xi) # Raised
               /\ DEval(fid, xi) # Raised
               /\ Eq(DEval(fid, xi), Zero)
         [] method = "modified_secant" ->
               /\ Eval(fid, Add(xi, Perturb)) # Raised
               /\ Eval(fid, xi) # Raised
               /\ Eq(Sub(Eval(fid, Add(xi, Perturb)), Eval(fid, xi)), Zero)
         [] OTHER -> FALSE

\* C6: in Secant, NewtonRaphson and ModifiedSecant a zero denominator at step
\* k makes the run fail at step k with a raised error, with exactly k-1 records
\* and no result.
C6_FatalArithmetic ==
    /\ [][DenominatorZero =>
            /\ status' = "failed"
            /\ error' = "ZeroDivisionError"
            /\ k' = k + 1
            /\ iters' = iters
            /\ Len(iters) = k
            /\ result' = NoResult]_vars
    /\ []((/\ method \in {"secant", "newton_raphson", "modified_secant"}
            /\ status = "failed"
            /\ error = "ZeroDivisionError")
           => (result = NoResult /\ k >= 1 /\ Len(iters) = k - 1))

C6_Witness ==
    /\ method \in {"secant", "newton_raphson", "modified_secant"}
    /\ status = "failed"
    /\ error = "ZeroDivisionError"
    /\ k >= 2
    /\ Len(iters) = k - 1

\* C7: Bisection and RegulaFalsi with f(a)*f(b) > 0 fail with the invalid
\* bracket error with zero iterations, no estimate, no record and f evaluated
\* only at a and b; with f(a)*f(b) <= 0 that error is never raised.
C7_InvalidBracket ==
    (method \in BracketMethods /\ status # "init" /\ fA0 # Raised /\ fB0 # Raised) =>
        /\ Gt(Mul(fA0, fB0), Zero) =>
              /\ status = "failed"
              /\ error = "ValueError: opposite signs"
              /\ k = 0
              /\ iters = <<>>
              /\ evals = <<a0, b0>>
              /\ fc = NaN
              /\ result = NoResult
        /\ Le(Mul(fA0, fB0), Zero) => error # "ValueError: opposite signs"

C7_Witness ==
    /\ method \in BracketMethods
    /\ status = "failed"
    /\ error = "ValueError: opposite signs"
    /\ Gt(Mul(fA0, fB0), Zero)

\* C8: a record whose error metric is below the tolerance is the last one:
\* the run returned at that step with that step's index and estimate.
C8_ConvergenceStops ==
    \A i \in 1..Len(iters) :
        Lt(iters[i].error_metric, tol) =>
            /\ i = Len(iters)
            /\ status = "returned"
            /\ k = i
            /\ result.its = i
            /\ result.root = iters[i].estimate

C8_Witness ==
    /\ status = "returned"
    /\ Len(iters) >= 2
    /\ Len(iters) < maxit
    /\ Lt(iters[Len(iters)].error_metric, tol)

\* C9: in Bisection the error metric recorded at step k is |b0-a0| / 2^k and
\* the bracket width after the update of step k is |b0-a0| / 2^k.
C9_MonotoneShrink ==
    method = "bisection" =>
        /\ \A i \in 1..Len(iters) :
              Eq(iters[i].error_metric, Div(Width0, <<Pow2(i), 1>>))
        /\ status = "iterating" => Eq(Abs(Sub(b, a)), Div(Width0, <<Pow2(k), 1>>))

C9_Witness ==
    /\ method = "bisection"
    /\ status = "iterating"
    /\ k >= 2
    /\ Gt(Width0, Zero)

\* C10: in the list-collecting methods the trace holds the indices 1..n in
\* order, produced records are never altered, and on return the trace length
\* is iterations_used and the last record's estimate is the root.
C10_TraceOrdered ==
    /\ [](variant = "list" =>
            /\ \A i \in 1..Len(iters) : iters[i].index = i
            /\ status = "returned" =>
                  /\ Len(iters) = result.its
                  /\ iters[Len(iters)].estimate = result.root)
    /\ [][variant = "list" =>
            /\ Len(iters') >= Len(iters)
            /\ SubSeq(iters', 1, Len(iters)) = iters]_vars

C10_Witness ==
    /\ variant = "list"
    /\ status = "returned"
    /\ Len(iters) >= 3
====
